---- MODULE Spec2Model ----
(***************************************************************************)
(* A model of the ReAgent front end (vanilla-JS variant): the concept      *)
(* hierarchy / knowledge-graph circle-packing views, their zoom            *)
(* navigation, the label fitter and the search handler that feeds them.    *)
(*                                                                         *)
(* Units.  Scales are kept in hundredths (0.8 is 80, 1.5 is 150, 4 is     *)
(* 400, 0.1 is 10), translations in hundredths of a pixel, so that the     *)
(* d3 transform  translate(w/2,h/2).scale(k).translate(-x,-y)  is exact    *)
(* integer arithmetic.  Text widths are in tenths of a pixel.              *)
(***************************************************************************)
EXTENDS Integers, Sequences, FiniteSets, TLC

VARIABLES
    sumData,      \* the tree handed to pack(), as <<>> or <<data>>
    sumRoot,      \* the d3.hierarchy root pack() computed, <<>> or <<node>>
    sumAgain,     \* the same root after a second .sum() pass, <<>> or <<node>>
    sumGraph,     \* the root pack() of the knowledge-graph view computed
    visKind,      \* what #visualization holds: "none", "concept" or "graph"
    visSvgs,      \* the svg elements that are children of #visualization
    visSize,      \* <<width, height>> read from the container at rendering
    visNodes,     \* root.descendants() with the layout: [depth, name, x, y]
    visLabels,    \* the text of each node's label, by node index
    visData,      \* the tree the rendering was given, as <<>> or <<data>>
    zoomedNode,   \* the closure variable zoomedNode: 0 (null) or a node index
    transform,    \* the svg's current zoom transform [k, x, y]
    target,       \* the transform last set by the program (mount or click)
    moving,       \* a 750 ms transition towards target is running
    gestures,     \* wheel and drag gestures made on the current svg
    navLast,      \* the last event handled, with the state it found
    engine,       \* what getBBox() answers for an element outside the document
    bodySvgs,     \* measurement svgs attached to document.body
    fitPc,        \* where fitTextToCircle stands: idle, shrink, truncate, done, threw
    fitArgs,      \* its arguments [text, radius, minFont, maxFont]
    fitSvg,       \* its svg: [created, attached, before] (before: bodySvgs at the call)
    fitFont,      \* fontSize
    fitWidth,     \* width, the last measurement, in tenths of a pixel
    fitText,      \* displayText
    fitChars,     \* chars
    fitMeasures,  \* getBBox() calls made by this invocation
    currentPapers,      \* the module variable currentPapers (titles)
    currentPaperIndex,  \* the module variable currentPaperIndex (from 0)
    tabs,               \* paper tabs shown in #papersContainer
    responseBox,        \* innerHTML of #responseBox
    pending,            \* queries of the handleSearch calls awaiting searchPapers
    appLast,            \* the last handler run, with what it was given
    overtaken,          \* per pending call: a call issued after it has completed
    currentConceptHierarchy,  \* the module variable, <<>> (null) or <<tree>>
    fullTextPending,    \* per loadFullText call awaiting getFullText: the paper asked for
    mergeLast,          \* the last loadFullText completion, with what it found
    tokenMap,     \* the argument of the last visualizeTokens call, <<>> or <<map>>
    tokNodes,     \* nodes: [id, group, x, y, pin], pin being fx/fy: <<>> or <<x, y>>
    tokLinks,     \* links: [source, target] and the nodes forceLink resolved them to
    sims,         \* the force simulations created, in the order of the calls
    drags,        \* the drag gestures in progress, by pointer identifier
    forceLast     \* the last drag event or rendering of the force view

sumVars == <<sumData, sumRoot, sumAgain, sumGraph>>

navVars == <<visKind, visSvgs, visSize, visNodes, visLabels, visData, zoomedNode, transform,
             target, moving, gestures, navLast>>

appVars == <<currentPapers, currentPaperIndex, tabs, responseBox, pending, appLast,
             overtaken, currentConceptHierarchy, fullTextPending, mergeLast>>

forceVars == <<tokenMap, tokNodes, tokLinks, sims, drags, forceLast>>

fitVars == <<engine, bodySvgs, fitPc, fitArgs, fitSvg, fitFont, fitWidth, fitText,
             fitChars, fitMeasures>>

vars == <<sumData, sumRoot, sumAgain, sumGraph, visKind, visSvgs, visSize, visNodes,
          visLabels,
          visData, zoomedNode, transform, target, moving, gestures, navLast,
          engine, bodySvgs, fitPc, fitArgs, fitSvg, fitFont, fitWidth, fitText,
          fitChars, fitMeasures,
          currentPapers, currentPaperIndex, tabs, responseBox, pending, appLast,
          overtaken, currentConceptHierarchy, fullTextPending, mergeLast,
          tokenMap, tokNodes, tokLinks, sims, drags, forceLast>>

(***************************************************************************)
(* Bounds of the model                                                     *)
(***************************************************************************)
MaxNodes == 4          \* nodes of an input tree handed to pack()
MaxPapers == 2         \* papers of a search result
MaxGestures == 2       \* wheel and drag gestures between two renderings
MaxLen == 5            \* characters of a label text
MaxInFlight == 2       \* handleSearch calls awaiting their response

(***************************************************************************)
(* Concept trees: { name, value?, children? }                              *)
(***************************************************************************)
\* the d.value of the hierarchy literal in handleSearch: a paper circle
PaperValue == 5
\* the d.value of the "Abstract" child in handleSearch
AbstractValue == 1

HasValue(d) == "value" \in DOMAIN d
Kids(d) == IF "children" \in DOMAIN d THEN d.children ELSE <<>>

\* a data node with an optional value (<<>> or <<v>>) and a list of children
MkData(name, vopt, kids) ==
    LET base == [name |-> name]
        withV == IF vopt = <<>> THEN base
                 ELSE [name |-> name, value |-> vopt[1]]
    IN  IF kids = <<>> THEN withV
        ELSE IF vopt = <<>> THEN [name |-> name, children |-> kids]
        ELSE [name |-> name, value |-> vopt[1], children |-> kids]

\* the values a server- or client-built node may carry: none, 0, 1 or 5
ValueOpts == {<<>>, <<0>>, <<AbstractValue>>, <<PaperValue>>}

RECURSIVE TreesN(_), ForestsN(_)
\* all trees with exactly n nodes
TreesN(n) ==
    IF n = 0 THEN {}
    ELSE UNION { {MkData("n", v, f) : v \in ValueOpts} : f \in ForestsN(n - 1) }
\* all lists of trees with n nodes in total
ForestsN(n) ==
    IF n = 0 THEN {<<>>}
    ELSE UNION { UNION { { <<t>> \o f : f \in ForestsN(n - k) } : t \in TreesN(k) }
                 : k \in 1..n }

SumTrees == UNION { TreesN(n) : n \in 1..MaxNodes }

(***************************************************************************)
(* d3.hierarchy(data).sum(value).sort(compare)                             *)
(***************************************************************************)
\* the accessor d => d.value || 1 of the concept view
ConceptValue(d) == IF HasValue(d) /\ d.value # 0 THEN d.value ELSE 1
\* the accessor d => d.value of the knowledge-graph view (+undefined || 0)
GraphValue(d) == IF HasValue(d) THEN d.value ELSE 0

Accessor(view, d) == IF view = "concept" THEN ConceptValue(d) ELSE GraphValue(d)

RECURSIVE SeqSum(_)
SeqSum(s) == IF s = <<>> THEN 0 ELSE Head(s) + SeqSum(Tail(s))

\* a summation that gives a node with children the sum of its children alone
RECURSIVE MutantSumChildrenOnly(_, _, _)
MutantSumChildrenOnly(d, depth, view) ==
    LET kids == [i \in 1..Len(Kids(d)) |->
                   MutantSumChildrenOnly(Kids(d)[i], depth + 1, view)]
    IN  [data |-> d, depth |-> depth,
         value |-> IF kids = <<>> THEN Accessor(view, d)
                   ELSE SeqSum([i \in 1..Len(kids) |-> kids[i].value]),
         children |-> kids]

\* node.sum(value): a node's value is its own accessor value plus the values
\* of its children, computed bottom-up
RECURSIVE SumNode(_, _, _)
SumNode(d, depth, view) ==
    LET kids == [i \in 1..Len(Kids(d)) |-> SumNode(Kids(d)[i], depth + 1, view)]
    IN  [data |-> d, depth |-> depth,
         value |-> Accessor(view, d) + SeqSum([i \in 1..Len(kids) |-> kids[i].value]),
         children |-> kids]

\* insertion of x into a list sorted by non-increasing value, after its equals
RECURSIVE InsertDesc(_, _)
InsertDesc(x, s) ==
    IF s = <<>> THEN <<x>>
    ELSE IF x.value > Head(s).value THEN <<x>> \o s
    ELSE <<Head(s)>> \o InsertDesc(x, Tail(s))

RECURSIVE SortDesc(_)
\* Array.prototype.sort((a, b) => b.value - a.value), which is stable
SortDesc(s) ==
    IF s = <<>> THEN <<>>
    ELSE LET n == Len(s) IN InsertDesc(s[n], SortDesc(SubSeq(s, 1, n - 1)))

\* a sort of the children of the root alone
MutantSortRootOnly(node) ==
    [data |-> node.data, depth |-> node.depth, value |-> node.value,
     children |-> SortDesc(node.children)]

RECURSIVE SortNode(_)
\* node.sort(compare): the children of every node, sorted
SortNode(node) ==
    [data |-> node.data, depth |-> node.depth, value |-> node.value,
     children |-> SortDesc([i \in 1..Len(node.children) |-> SortNode(node.children[i])])]

Hierarchy(data, view) == SortNode(SumNode(data, 0, view))

\* a second node.sum(value) on a computed root: the values come from
\* node.data again, never from the node.value of the first pass
RECURSIVE Resum(_, _)
Resum(node, view) ==
    LET kids == [i \in 1..Len(node.children) |-> Resum(node.children[i], view)]
    IN  [data |-> node.data, depth |-> node.depth,
         value |-> Accessor(view, node.data)
                     + SeqSum([i \in 1..Len(kids) |-> kids[i].value]),
         children |-> kids]

RECURSIVE Bfs(_)
Bfs(queue) ==
    IF queue = <<>> THEN <<>>
    ELSE <<Head(queue)>> \o Bfs(Tail(queue) \o Head(queue).children)

\* root.descendants(): the root and all nodes below it, breadth first
Descendants(root) == Bfs(<<root>>)

(***************************************************************************)
(* Inputs of the two circle-packing views                                  *)
(***************************************************************************)
Titles == {"A", "B"}

PaperLists == UNION { [1..n -> Titles] : n \in 1..MaxPapers }

\* the hierarchy literal of handleSearch: one node per paper, in order
SearchHierarchy(papers) ==
    [name |-> "Search Results",
     children |-> [i \in 1..Len(papers) |->
                     [name |-> papers[i], value |-> PaperValue,
                      children |-> <<[name |-> "Abstract", value |-> AbstractValue]>>]]]

\* a per-paper hierarchy as the full-text endpoint returns it
ServerHierarchies ==
    { MkData("Paper", <<>>, <<MkData("Method", <<1>>, <<>>), MkData("Result", <<5>>, <<>>)>>),
      MkData("Paper", <<>>, <<>>) }

\* what updateConceptHierarchy is given: search results of one or two papers
\* (handleSearch), or a per-paper hierarchy (loadFullText)
ConceptInputs ==
    { SearchHierarchy(<<"A">>), SearchHierarchy(<<"A", "B">>) } \cup ServerHierarchies

\* graphData of updateKnowledgeGraph: null (<<>>) or an object whose nodes and
\* edges fields are present or not, and whose children d3.hierarchy reads
GraphInputs ==
    { <<>>,
      <<[nodes |-> FALSE, edges |-> TRUE, data |-> MkData("Graph", <<>>, <<>>)]>>,
      <<[nodes |-> TRUE, edges |-> FALSE, data |-> MkData("Graph", <<>>, <<>>)]>> }
    \cup { <<[nodes |-> TRUE, edges |-> TRUE, data |-> t]>> : t \in ServerHierarchies }

\* clientWidth and clientHeight of the #visualization container
Viewports == { <<800, 600>>, <<400, 300>> }

\* where the layout engine puts the circles below the root: node i of depth d
\* lies at root + ((i - 1) * off[1], d * off[2]); the engine is external and
\* its output is any placement
Offsets == { <<-40, 30>>, <<60, -20>> }

(***************************************************************************)
(* The zoom transform                                                      *)
(***************************************************************************)
\* d3.zoom().scaleExtent([0.1, 4]), in hundredths
ScaleMin == 10
ScaleMax == 400
\* the three scales the program sets: mount and zoom-out, concept click,
\* knowledge-graph click
FitScale == 80
FocusScale == 150
GraphFocusScale == 400

\* d3.zoomIdentity.translate(w / 2, h / 2).scale(k).translate(-x, -y)
ZoomTo(size, k, x, y) ==
    [k |-> k, x |-> 100 * (size[1] \div 2) - k * x,
              y |-> 100 * (size[2] \div 2) - k * y]

\* where transform t shows the layout point (x, y), in hundredths of a pixel
Apply(t, x, y) == <<t.k * x + t.x, t.k * y + t.y>>

Centre(size) == <<100 * (size[1] \div 2), 100 * (size[2] \div 2)>>

NoTransform == [k |-> 100, x |-> 0, y |-> 0]

Min(a, b) == IF a < b THEN a ELSE b
Max(a, b) == IF a > b THEN a ELSE b

\* a zoom behaviour without scaleExtent
MutantNoScaleExtent(k) == k

\* the scale a gesture asking for scale k gets: clamped to the scale extent
ClampScale(k) == Max(ScaleMin, Min(ScaleMax, k))

\* scales a wheel gesture may ask for (current scale times any factor)
WheelRequests == { 5, 200, 800 }
\* drag distances of a pan gesture, in pixels
PanDeltas == { <<30, -30>> }

(***************************************************************************)
(* Rendering: updateConceptHierarchy and updateKnowledgeGraph              *)
(***************************************************************************)
Placeholder == "Paper 1"

\* d3.pack().size([w - 2, h - 2]) on the hierarchy: the root sits at the
\* centre of the packing area, the other circles where the engine puts them.
\* x and y are the layout coordinates d.x, d.y the click handlers read.
PackLayout(root, size, off) ==
    LET ds == Descendants(root)
        rx == (size[1] - 2) \div 2
        ry == (size[2] - 2) \div 2
    IN  [i \in 1..Len(ds) |->
           [depth |-> ds[i].depth, name |-> ds[i].data.name,
            x |-> IF i = 1 THEN rx ELSE rx + (i - 1) * off[1],
            y |-> IF i = 1 THEN ry ELSE ry + ds[i].depth * off[2]]]

\* resetting to d3.zoomIdentity instead of fitting the root
MutantRootFitIdentity(size, nodes) == [k |-> 100, x |-> 0, y |-> 0]

\* the initial zoom to fit, also the zoom-out target of the concept view
RootFit(size, nodes) == ZoomTo(size, FitScale, nodes[1].x, nodes[1].y)

\* .text(d => d.depth === 0 ? 'Paper 1' : '')
ConceptLabels(nodes) ==
    [i \in 1..Len(nodes) |-> IF nodes[i].depth = 0 THEN Placeholder ELSE ""]

\* .text(d => d.depth === 0 ? '' : d.data.name)
GraphLabels(nodes) ==
    [i \in 1..Len(nodes) |-> IF nodes[i].depth = 0 THEN "" ELSE nodes[i].name]

\* appending the new svg without removing the old scene
MutantKeepScene(svgs) == svgs

\* d3.select('#visualization').selectAll('*').remove(): no svg is left
ClearScene(svgs) == 0

\* zoomedNode kept across renderings (a module-level variable)
MutantKeepZoomedNode(old) == old

\* let zoomedNode = null, once per call of updateConceptHierarchy
FreshZoomedNode(old) == 0

Event(type, node) == [type |-> type, node |-> node, wasZoomed |-> zoomedNode]

InitNav ==
    /\ visKind = "none" /\ visSvgs = 0 /\ visSize = <<0, 0>> /\ visNodes = <<>> /\ visLabels = <<>>
    /\ visData = <<>>
    /\ zoomedNode = 0 /\ transform = NoTransform /\ target = NoTransform
    /\ moving = FALSE /\ gestures = 0
    /\ navLast = [type |-> "load", node |-> 0, wasZoomed |-> 0]

\* const root = pack(hierarchy), for every input, container size and layout
ConceptLayouts ==
    { [input |-> h, size |-> size,
       nodes |-> PackLayout(Hierarchy(h, "concept"), size, off)] :
        h \in ConceptInputs, size \in Viewports, off \in Offsets }

\* const root = pack(graphData), for every valid input
GraphLayouts ==
    { [input |-> g[1].data, size |-> size,
       nodes |-> PackLayout(Hierarchy(g[1].data, "graph"), size, off)] :
        g \in GraphInputs \ {<<>>}, size \in Viewports, off \in Offsets }

\* updateConceptHierarchy(hierarchy) with a hierarchy: the old scene is
\* removed and a new svg, layout, closure and zoom behaviour are built
RenderConcept(h, size, nodes) ==
    /\ visKind' = "concept"
    /\ visSvgs' = ClearScene(visSvgs) + 1
    /\ visData' = <<h>>
    /\ visSize' = size
    /\ visNodes' = nodes
    /\ visLabels' = ConceptLabels(nodes)
    /\ zoomedNode' = FreshZoomedNode(zoomedNode)
    /\ transform' = RootFit(size, nodes)
    /\ target' = RootFit(size, nodes)
    /\ moving' = FALSE
    /\ gestures' = 0

\* updateConceptHierarchy(hierarchy): null is logged and nothing is touched
updateConceptHierarchy ==
    /\ \E h \in {<<>>} \cup { <<t>> : t \in ConceptInputs } :
         IF h = <<>>
         THEN /\ UNCHANGED <<visKind, visSvgs, visSize, visNodes, visLabels, visData,
                             zoomedNode, transform, target, moving, gestures>>
              /\ navLast' = Event("invalidInput", 0)
         ELSE /\ \E r \in ConceptLayouts :
                   r.input = h[1] /\ RenderConcept(h[1], r.size, r.nodes)
              /\ navLast' = Event("renderConcept", 0)
    /\ UNCHANGED <<sumVars, fitVars, appVars, forceVars>>

\* updateKnowledgeGraph(graphData)
updateKnowledgeGraph ==
    /\ \E g \in GraphInputs :
         IF g = <<>> \/ ~g[1].nodes \/ ~g[1].edges
         THEN /\ UNCHANGED <<visKind, visSvgs, visSize, visNodes, visLabels, visData,
                             zoomedNode, transform, target, moving, gestures>>
              /\ navLast' = Event("invalidInput", 0)
         ELSE \E r \in GraphLayouts :
                /\ navLast' = Event("renderGraph", 0)
                /\ r.input = g[1].data
                /\ visKind' = "graph"
                /\ visSvgs' = ClearScene(visSvgs) + 1
                /\ visData' = <<g[1].data>>
                /\ visSize' = r.size
                /\ visNodes' = r.nodes
                /\ visLabels' = GraphLabels(r.nodes)
                /\ transform' = RootFit(r.size, r.nodes)
                /\ target' = RootFit(r.size, r.nodes)
                /\ moving' = FALSE
                /\ gestures' = 0
                \* the concept closure and its zoomedNode are gone with the svg
                /\ zoomedNode' = 0
    /\ UNCHANGED <<sumVars, fitVars, appVars, forceVars>>

(***************************************************************************)
(* Click handlers of the circles                                           *)
(***************************************************************************)
\* zooming in on the paper circles (depth 1) instead of the root circle
MutantBranchPaperDepth(depth, zoomed) ==
    IF depth = 1 /\ zoomed = 0 THEN "in"
    ELSE IF zoomed # 0 THEN "out"
    ELSE "none"

\* re-focusing on a click on a depth-0 circle while focused
MutantBranchRefocus(depth, zoomed) ==
    IF depth = 0 THEN "in"
    ELSE IF zoomed # 0 THEN "out"
    ELSE "none"

\* zooming in on whatever circle is clicked in the overview
MutantBranchAnyDepth(depth, zoomed) == IF zoomed = 0 THEN "in" ELSE "out"

\* the branch taken by the concept view's click handler
ConceptClickBranch(depth, zoomed) ==
    IF depth = 0 /\ zoomed = 0 THEN "in"
    ELSE IF zoomed # 0 THEN "out"
    ELSE "none"

\* zooming out without restoring the labels
MutantKeepLabels(nodes, labels) == labels

\* node.each(nd => nd.depth === 0 && text('Paper 1'))
RestoreLabels(nodes, labels) ==
    [i \in 1..Len(nodes) |-> IF nodes[i].depth = 0 THEN Placeholder ELSE labels[i]]

\* .on('click', function(event, d) {...}) of updateConceptHierarchy
ClickConcept ==
    /\ visKind = "concept"
    /\ \E i \in 1..Len(visNodes) :
         LET d == visNodes[i]
             branch == ConceptClickBranch(d.depth, zoomedNode)
         IN  /\ CASE branch = "in" ->
                       /\ zoomedNode' = i
                       /\ target' = ZoomTo(visSize, FocusScale, d.x, d.y)
                       /\ moving' = TRUE
                       /\ visLabels' = [visLabels EXCEPT ![i] = d.name]
                  [] branch = "out" ->
                       /\ zoomedNode' = 0
                       /\ target' = RootFit(visSize, visNodes)
                       /\ moving' = TRUE
                       /\ visLabels' = RestoreLabels(visNodes, visLabels)
                  [] OTHER ->
                       UNCHANGED <<zoomedNode, target, moving, visLabels>>
             /\ navLast' = Event("click", i)
    /\ UNCHANGED <<visKind, visSvgs, visSize, visNodes, visData, transform, gestures>>
    /\ UNCHANGED <<sumVars, fitVars, appVars, forceVars>>

\* a handler that zooms in on the root circle too
MutantGraphClickAnyDepth(depth) == "in"

\* the branch taken by the knowledge-graph view's click handler
GraphClickBranch(depth) == IF depth > 0 THEN "in" ELSE "none"

\* .on('click', (event, d) => {...}) of updateKnowledgeGraph
ClickGraph ==
    /\ visKind = "graph"
    /\ \E i \in 1..Len(visNodes) :
         LET d == visNodes[i] IN
         /\ IF GraphClickBranch(d.depth) = "in"
            THEN /\ target' = ZoomTo(visSize, GraphFocusScale, d.x, d.y)
                 /\ moving' = TRUE
            ELSE UNCHANGED <<target, moving>>
         /\ navLast' = Event("click", i)
    /\ UNCHANGED <<visKind, visSvgs, visSize, visNodes, visLabels, visData, zoomedNode,
                   transform, gestures>>
    /\ UNCHANGED <<sumVars, fitVars, appVars, forceVars>>

(***************************************************************************)
(* Gestures handled by d3.zoom on the svg, and the end of a transition     *)
(***************************************************************************)
\* a wheel gesture over layout point (x, y) asking for scale k: the scale is
\* clamped, the point under the pointer stays where it is, and a running
\* transition is interrupted
WheelZoom ==
    /\ visKind # "none" /\ gestures < MaxGestures
    /\ \E req \in WheelRequests, i \in {1, Len(visNodes)} :
         LET k == ClampScale(req)
             p == visNodes[i]
         IN  /\ transform' = [k |-> k, x |-> transform.x + (transform.k - k) * p.x,
                                        y |-> transform.y + (transform.k - k) * p.y]
             /\ navLast' = Event("wheel", i)
    /\ moving' = FALSE
    /\ gestures' = gestures + 1
    /\ UNCHANGED <<visKind, visSvgs, visSize, visNodes, visLabels, visData, zoomedNode, target>>
    /\ UNCHANGED <<sumVars, fitVars, appVars, forceVars>>

\* a drag gesture on the svg background: the view is translated
DragPan ==
    /\ visKind # "none" /\ gestures < MaxGestures
    /\ \E d \in PanDeltas :
         transform' = [transform EXCEPT !.x = @ + 100 * d[1], !.y = @ + 100 * d[2]]
    /\ navLast' = Event("drag", 0)
    /\ moving' = FALSE
    /\ gestures' = gestures + 1
    /\ UNCHANGED <<visKind, visSvgs, visSize, visNodes, visLabels, visData, zoomedNode, target>>
    /\ UNCHANGED <<sumVars, fitVars, appVars, forceVars>>

\* the transition started by a click reaches its target (the frames between
\* are not modelled)
TransitionEnd ==
    /\ moving
    /\ transform' = target
    /\ moving' = FALSE
    /\ UNCHANGED <<visKind, visSvgs, visSize, visNodes, visLabels, visData, zoomedNode,
                   target, gestures, navLast>>
    /\ UNCHANGED <<sumVars, fitVars, appVars, forceVars>>

(***************************************************************************)
(* pack(hierarchy) on every tree of SumTrees                               *)
(***************************************************************************)
InitSumVars == sumData = <<>> /\ sumRoot = <<>> /\ sumAgain = <<>> /\ sumGraph = <<>>

\* a tree arrives (a search result or a server hierarchy)
SumInput ==
    /\ sumData = <<>>
    /\ \E t \in SumTrees : sumData' = <<t>>
    /\ UNCHANGED <<sumRoot, sumAgain, sumGraph>>
    /\ UNCHANGED <<navVars, fitVars, appVars, forceVars>>

\* const root = pack(hierarchy)
SumPack ==
    /\ sumData # <<>> /\ sumRoot = <<>>
    /\ sumRoot' = <<Hierarchy(sumData[1], "concept")>>
    /\ UNCHANGED <<sumData, sumAgain, sumGraph>>
    /\ UNCHANGED <<navVars, fitVars, appVars, forceVars>>

\* root.sum(d => d.value || 1) once more
SumRepeat ==
    /\ sumRoot # <<>> /\ sumAgain = <<>>
    /\ sumAgain' = <<Resum(sumRoot[1], "concept")>>
    /\ UNCHANGED <<sumData, sumRoot, sumGraph>>
    /\ UNCHANGED <<navVars, fitVars, appVars, forceVars>>

\* const root = pack(graphData) of updateKnowledgeGraph on the same tree
SumPackGraph ==
    /\ sumData # <<>> /\ sumGraph = <<>>
    /\ sumGraph' = <<Hierarchy(sumData[1], "graph")>>
    /\ UNCHANGED <<sumData, sumRoot, sumAgain>>
    /\ UNCHANGED <<navVars, fitVars, appVars, forceVars>>

(***************************************************************************)
(* fitTextToCircle(text, radius, minFont = 8, maxFont = 18)                *)
(***************************************************************************)
MinFontDefault == 8
MaxFontDefault == 18
\* the truncation loop keeps at least this many characters of the text
MinChars == 3
\* maxWidth = radius * 1.7, in tenths of a pixel
WidthFactor == 17

\* the single character U+2026
Ellipsis == "..."

\* advance widths in tenths of an em: a narrow and a wide letter, the ellipsis
Glyphs == {"i", "W"}
GlyphWidth(c) == IF c = "i" THEN 3 ELSE IF c = "W" THEN 9 ELSE 6

Texts == UNION { [1..n -> Glyphs] : n \in 0..MaxLen }
Radii == {2, 10, 12, 20, 40}
FontPairs == { <<MinFontDefault, MaxFontDefault>>, <<12, 12>> }

\* getBBox().width of a rendered text at a font size, in tenths of a pixel
RECURSIVE TextWidth(_, _)
TextWidth(t, font) ==
    IF t = <<>> THEN 0 ELSE GlyphWidth(Head(t)) * font + TextWidth(Tail(t), font)

MaxWidth(radius) == radius * WidthFactor

\* getBBox() on an element that is not in the document: browsers answer an
\* empty box or throw; a layout-capable environment answers the real width
Engines == {"zero", "throw", "layout"}

\* the shrink loop going one size too far
MutantShrinkBelowMin(width, maxWidth, font, minFont) ==
    width > maxWidth /\ font >= minFont

\* a shrink loop without the floor of minFont
MutantShrinkNoFloor(width, maxWidth, font, minFont) == width > maxWidth

\* while (width > maxWidth && fontSize > minFont)
ShrinkMore(width, maxWidth, font, minFont) == width > maxWidth /\ font > minFont

\* a truncation loop that goes on down to 2 characters
MutantTruncateBelowMin(width, maxWidth, chars) == width > maxWidth /\ chars >= MinChars

\* while (width > maxWidth && chars > 3)
TruncateMore(width, maxWidth, chars) == width > maxWidth /\ chars > MinChars

\* text.slice(0, chars) + ellipsis
Truncated(t, chars) == Append(SubSeq(t, 1, chars), Ellipsis)

\* no invocation is running: there are no arguments and no locals
FitIdle ==
    /\ fitPc = "idle"
    /\ fitArgs = [text |-> <<>>, radius |-> 0, minFont |-> 0, maxFont |-> 0]
    /\ fitSvg = [created |-> 0, attached |-> FALSE, before |-> 0]
    /\ fitFont = 0 /\ fitWidth = 0 /\ fitText = <<>> /\ fitChars = 0
    /\ fitMeasures = 0

InitFit == engine \in Engines /\ bodySvgs = 0 /\ FitIdle

\* lines 336-339: the svg is appended to body, the text measured at maxFont
FitCall ==
    /\ fitPc = "idle"
    /\ \E t \in Texts, r \in Radii, f \in FontPairs :
         /\ fitArgs' = [text |-> t, radius |-> r, minFont |-> f[1], maxFont |-> f[2]]
         /\ fitFont' = f[2]
         /\ fitWidth' = TextWidth(t, f[2])
         /\ fitText' = t
    /\ fitSvg' = [created |-> 1, attached |-> TRUE, before |-> bodySvgs]
    /\ bodySvgs' = bodySvgs + 1
    /\ fitChars' = 0
    /\ fitMeasures' = 1
    /\ fitPc' = "shrink"
    /\ UNCHANGED engine
    /\ UNCHANGED <<sumVars, navVars, appVars, forceVars>>

\* lines 341-345: one turn of the shrink loop
FitShrink ==
    /\ fitPc = "shrink"
    /\ ShrinkMore(fitWidth, MaxWidth(fitArgs.radius), fitFont, fitArgs.minFont)
    /\ fitFont' = fitFont - 1
    /\ fitWidth' = TextWidth(fitArgs.text, fitFont - 1)
    /\ fitMeasures' = fitMeasures + 1
    /\ UNCHANGED <<engine, bodySvgs, fitPc, fitArgs, fitSvg, fitText, fitChars>>
    /\ UNCHANGED <<sumVars, navVars, appVars, forceVars>>

\* lines 346-350 and 360: after the shrink loop the svg is removed (when
\* detach holds), then the text either fits, and is returned, or is truncated
FitAfterShrink(detach) ==
    /\ fitPc = "shrink"
    /\ ~ShrinkMore(fitWidth, MaxWidth(fitArgs.radius), fitFont, fitArgs.minFont)
    /\ IF detach /\ fitSvg.attached
       THEN /\ fitSvg' = [fitSvg EXCEPT !.attached = FALSE]
            /\ bodySvgs' = bodySvgs - 1
       ELSE UNCHANGED <<fitSvg, bodySvgs>>
    /\ fitText' = fitArgs.text
    /\ IF fitWidth > MaxWidth(fitArgs.radius)
       THEN fitChars' = Len(fitArgs.text) /\ fitPc' = "truncate"
       ELSE fitChars' = fitChars /\ fitPc' = "done"
    /\ UNCHANGED <<engine, fitArgs, fitFont, fitWidth, fitMeasures>>
    /\ UNCHANGED <<sumVars, navVars, appVars, forceVars>>

\* the svg left in the document after the shrink loop
MutantFitNoRemove == FitAfterShrink(FALSE)

FitRemove == FitAfterShrink(TRUE)

\* lines 351-357: one turn of the truncation loop; the prefix is measured on
\* the svg as it is, attached or not
FitTruncate ==
    /\ fitPc = "truncate"
    /\ TruncateMore(fitWidth, MaxWidth(fitArgs.radius), fitChars)
    /\ fitChars' = fitChars - 1
    /\ fitText' = Truncated(fitArgs.text, fitChars - 1)
    /\ fitMeasures' = fitMeasures + 1
    /\ IF fitSvg.attached \/ engine = "layout"
       THEN /\ fitWidth' = TextWidth(Truncated(fitArgs.text, fitChars - 1), fitFont)
            /\ fitPc' = fitPc
       ELSE IF engine = "zero"
       THEN fitWidth' = 0 /\ fitPc' = fitPc
       ELSE fitWidth' = fitWidth /\ fitPc' = "threw"
    /\ UNCHANGED <<engine, bodySvgs, fitArgs, fitSvg, fitFont>>
    /\ UNCHANGED <<sumVars, navVars, appVars, forceVars>>

\* lines 358-360: svg.remove() once more, and the return
FitTruncateEnd ==
    /\ fitPc = "truncate"
    /\ ~TruncateMore(fitWidth, MaxWidth(fitArgs.radius), fitChars)
    /\ IF fitSvg.attached
       THEN /\ fitSvg' = [fitSvg EXCEPT !.attached = FALSE]
            /\ bodySvgs' = bodySvgs - 1
       ELSE UNCHANGED <<fitSvg, bodySvgs>>
    /\ fitPc' = "done"
    /\ UNCHANGED <<engine, fitArgs, fitFont, fitWidth, fitText, fitChars, fitMeasures>>
    /\ UNCHANGED <<sumVars, navVars, appVars, forceVars>>

\* the caller goes on with what was returned or thrown; the locals of the
\* invocation are gone, and the next label is fitted by a new invocation
FitReturn ==
    /\ fitPc \in {"done", "threw"}
    /\ fitPc' = "idle"
    /\ fitArgs' = [text |-> <<>>, radius |-> 0, minFont |-> 0, maxFont |-> 0]
    /\ fitSvg' = [created |-> 0, attached |-> FALSE, before |-> 0]
    /\ fitFont' = 0 /\ fitWidth' = 0 /\ fitText' = <<>> /\ fitChars' = 0
    /\ fitMeasures' = 0
    /\ UNCHANGED <<engine, bodySvgs>>
    /\ UNCHANGED <<sumVars, navVars, appVars, forceVars>>

(***************************************************************************)
(* handleSearch, renderPapers and displayPaper                             *)
(***************************************************************************)
\* the trimmed text of #searchInput
Queries == {"", "x", "y"}

\* what searchPapers resolves to: an object without papers (<<>>), or one
\* with a list of papers, empty or not (<<list>>); or it throws
SearchAnswers == { <<>>, << <<>> >> } \cup { <<p>> : p \in PaperLists }

\* const root = pack(hierarchy) for the hierarchies handleSearch builds
SearchLayouts ==
    { [input |-> SearchHierarchy(p), size |-> size,
       nodes |-> PackLayout(Hierarchy(SearchHierarchy(p), "concept"), size, off)] :
        p \in PaperLists, size \in Viewports, off \in Offsets }

Loading == <<"loading">>
Cleared == <<"empty">>
ErrorBox(message) == <<"error", message>>
FoundBox(n) == <<"found", n>>

\* showLoading(false): responseBox.innerHTML = ''
showLoadingFalse(box) == Cleared

\* a handler that renders a response only when no later call has completed
MutantRenderIfCurrent(stale) == ~stale

\* handleSearch has no test that a response belongs to the query issued
\* last: what comes back is rendered, late or not
RendersResponse(stale) == TRUE

InitApp ==
    /\ currentPapers = <<>> /\ currentPaperIndex = 0 /\ tabs = 0
    /\ responseBox = Cleared /\ pending = <<>> /\ overtaken = <<>>
    /\ appLast = [type |-> "load", query |-> "", answer |-> <<>>, called |-> FALSE,
                  wrote |-> Cleared, stale |-> FALSE]
    /\ currentConceptHierarchy = <<>>
    /\ fullTextPending = <<>>
    /\ mergeLast = [type |-> "load", data |-> <<>>, before |-> <<>>, papers |-> <<>>,
                    index |-> 0, requested |-> 0, storedOn |-> <<>>, called |-> <<>>]

\* renderPapers(papers) completes: papers[currentPaperIndex] is a paper
RenderPapersOk(papers) == currentPaperIndex < Len(papers)

\* handleSearch up to its await: an empty query returns at once
SearchSubmit ==
    /\ Len(pending) < MaxInFlight
    /\ \E q \in Queries :
         IF q = ""
         THEN /\ UNCHANGED <<responseBox, pending, overtaken>>
              /\ appLast' = [type |-> "searchIgnored", query |-> q, answer |-> <<>>,
                             called |-> FALSE, wrote |-> responseBox, stale |-> FALSE]
         ELSE /\ responseBox' = Loading
              /\ pending' = Append(pending, q)
              /\ overtaken' = Append(overtaken, FALSE)
              /\ appLast' = [type |-> "searchSubmit", query |-> q, answer |-> <<>>,
                             called |-> FALSE, wrote |-> Loading, stale |-> FALSE]
    /\ UNCHANGED <<currentPapers, currentPaperIndex, tabs>>
    /\ UNCHANGED <<currentConceptHierarchy, fullTextPending, mergeLast>>
    /\ UNCHANGED <<sumVars, navVars, fitVars, forceVars>>

Remove(seq, i) == SubSeq(seq, 1, i - 1) \o SubSeq(seq, i + 1, Len(seq))

\* call i has completed: the calls issued before it and still waiting have
\* been overtaken
Overtake(ov, i) == [j \in 1..(Len(ov) - 1) |-> IF j < i THEN TRUE ELSE ov[j + 1]]

\* searchPapers throws (the request failed): catch, showError, finally
SearchFails ==
    /\ \E i \in 1..Len(pending) :
         /\ pending' = Remove(pending, i)
         /\ overtaken' = Overtake(overtaken, i)
         /\ appLast' = [type |-> "searchFailed", query |-> pending[i], answer |-> <<>>,
                        called |-> FALSE, wrote |-> ErrorBox("Failed to fetch papers"),
                        stale |-> overtaken[i]]
    /\ responseBox' = showLoadingFalse(ErrorBox("Failed to fetch papers"))
    /\ UNCHANGED <<currentPapers, currentPaperIndex, tabs>>
    /\ UNCHANGED <<currentConceptHierarchy, fullTextPending, mergeLast>>
    /\ UNCHANGED <<sumVars, navVars, fitVars, forceVars>>

\* handleSearch from the await on, lines 8-43
SearchResponse ==
    \E i \in 1..Len(pending), a \in SearchAnswers :
      /\ pending' = Remove(pending, i)
      /\ overtaken' = Overtake(overtaken, i)
      /\ IF ~RendersResponse(overtaken[i])
         THEN /\ appLast' = [type |-> "searchResponse", query |-> pending[i],
                             answer |-> a, called |-> FALSE, wrote |-> responseBox,
                             stale |-> overtaken[i]]
              /\ UNCHANGED <<currentPapers, currentPaperIndex, tabs, responseBox>>
              /\ UNCHANGED navVars
         ELSE IF a = <<>> \/ a[1] = <<>>
         THEN \* no papers: showError, return
              /\ appLast' = [type |-> "searchResponse", query |-> pending[i],
                             answer |-> a, called |-> FALSE,
                             wrote |-> ErrorBox("No papers found for your query"),
                             stale |-> overtaken[i]]
              /\ responseBox' = showLoadingFalse(ErrorBox("No papers found for your query"))
              /\ UNCHANGED <<currentPapers, currentPaperIndex, tabs>>
              /\ UNCHANGED navVars
         ELSE IF ~RenderPapersOk(a[1])
         THEN \* renderPapers has set currentPapers and emptied the container
              \* when reading papers[currentPaperIndex].title throws
              /\ currentPapers' = a[1]
              /\ tabs' = 0
              /\ appLast' = [type |-> "searchResponse", query |-> pending[i],
                             answer |-> a, called |-> FALSE,
                             wrote |-> ErrorBox("TypeError"), stale |-> overtaken[i]]
              /\ responseBox' = showLoadingFalse(ErrorBox("TypeError"))
              /\ UNCHANGED currentPaperIndex
              /\ UNCHANGED navVars
         ELSE /\ currentPapers' = a[1]
              /\ tabs' = Len(a[1])
              /\ \E r \in SearchLayouts :
                   /\ r.input = SearchHierarchy(a[1])
                   /\ RenderConcept(SearchHierarchy(a[1]), r.size, r.nodes)
              /\ navLast' = Event("renderConcept", 0)
              /\ appLast' = [type |-> "searchResponse", query |-> pending[i],
                             answer |-> a, called |-> TRUE,
                             wrote |-> FoundBox(Len(a[1])), stale |-> overtaken[i]]
              /\ responseBox' = showLoadingFalse(FoundBox(Len(a[1])))
              /\ UNCHANGED currentPaperIndex
      /\ UNCHANGED <<currentConceptHierarchy, fullTextPending, mergeLast>>
      /\ UNCHANGED <<sumVars, fitVars, forceVars>>

\* a click on paper tab index + 1: displayPaper(index)
displayPaper ==
    /\ \E index \in 0..(tabs - 1) :
         /\ currentPaperIndex' = index
         /\ appLast' = [type |-> "displayPaper", query |-> "", answer |-> <<>>,
                        called |-> FALSE, wrote |-> responseBox, stale |-> FALSE]
    /\ tabs' = Len(currentPapers)
    /\ UNCHANGED <<currentPapers, responseBox, pending, overtaken>>
    /\ UNCHANGED <<currentConceptHierarchy, fullTextPending, mergeLast>>
    /\ UNCHANGED <<sumVars, navVars, fitVars, forceVars>>

(***************************************************************************)
(* loadFullText and its merge into currentConceptHierarchy                 *)
(***************************************************************************)
\* what getFullText resolves to: data without a hierarchy (<<>>) or with one
FullTextAnswers == {<<>>} \cup { <<t>> : t \in ServerHierarchies }

\* the children a paper node may have: the Abstract of handleSearch, the
\* children of a server hierarchy, or none
ChildKids ==
    { <<[name |-> "Abstract", value |-> AbstractValue]>> }
        \cup { Kids(t) : t \in ServerHierarchies }

\* the papers of the search whose tree is stored
StoredLists == { <<"A">>, <<"A", "B">>, <<"B", "A">>, <<"A", "A">> }

\* the trees currentConceptHierarchy may hold: a search tree, some of whose
\* papers have had their children replaced, or a root without children
StoredTrees ==
    { MkData("Search Results", <<>>, <<>>) }
    \cup UNION { { [name |-> "Search Results",
                    children |-> [i \in 1..Len(p) |->
                                    MkData(p[i], <<PaperValue>>, k[i])]] :
                   k \in [1..Len(p) -> ChildKids] } : p \in StoredLists }

ValueOf(d) == IF HasValue(d) THEN <<d.value>> ELSE <<>>

\* currentConceptHierarchy.children.find(child => child.name === paperTitle):
\* the index of the first child of that name, 0 for undefined
FindChild(root, title) ==
    LET ks == Kids(root)
        hits == { i \in 1..Len(ks) : ks[i].name = title }
    IN  IF hits = {} THEN 0 ELSE CHOOSE i \in hits : \A j \in hits : i <= j

\* putting the arrived hierarchy in the place of the paper node
MutantReplaceNode(root, i, h) == [root EXCEPT !.children[i] = h]

\* paperNode.children = data.hierarchy.children
ReplaceChildren(root, i, h) ==
    [root EXCEPT !.children[i] = MkData(@.name, ValueOf(@), Kids(h))]

\* the "Load Full Text" button of the paper shown, whose onclick carries the
\* entry_id of that paper: loadFullText(paperId) up to its await
loadFullText ==
    /\ tabs > 0 /\ Len(fullTextPending) < MaxInFlight
    /\ fullTextPending' = Append(fullTextPending, currentPaperIndex)
    /\ responseBox' = Loading
    /\ UNCHANGED <<currentPapers, currentPaperIndex, tabs, pending, appLast, overtaken,
                   currentConceptHierarchy, mergeLast>>
    /\ UNCHANGED <<sumVars, navVars, fitVars, forceVars>>

\* if (currentPapers && currentPapers[currentPaperIndex]) { .full_text = ...;
\* .summary = ... }: the paper the answer is stored on, <<>> when there is none
StoreFullText(requested) ==
    IF currentPaperIndex < Len(currentPapers) THEN <<currentPaperIndex>> ELSE <<>>

\* what a completion of loadFullText found: what arrived, the stored tree, the
\* papers and the index of the paper shown, the paper the call was made for,
\* the paper the text was stored on, and the tree it rendered
MergeEvent(type, data, requested, storedOn, called) ==
    [type |-> type, data |-> data, before |-> currentConceptHierarchy,
     papers |-> currentPapers, index |-> currentPaperIndex,
     requested |-> requested, storedOn |-> storedOn, called |-> called]

\* getFullText throws: catch, showError, finally
FullTextFails ==
    /\ \E c \in 1..Len(fullTextPending) :
         /\ fullTextPending' = Remove(fullTextPending, c)
         /\ mergeLast' = MergeEvent("fullTextFailed", <<>>, fullTextPending[c],
                                    <<>>, <<>>)
    /\ responseBox' = showLoadingFalse(ErrorBox("Failed to get full text"))
    /\ UNCHANGED <<currentPapers, currentPaperIndex, tabs, pending, appLast, overtaken,
                   currentConceptHierarchy>>
    /\ UNCHANGED <<sumVars, navVars, fitVars, forceVars>>

\* the container and the placement when a full text arrives
FullTextViewports == { <<800, 600>> }
FullTextOffsets == { <<60, -20>> }

\* updateConceptHierarchy(tree) called from loadFullText
RenderMerged(tree) ==
    /\ \E size \in FullTextViewports, off \in FullTextOffsets :
         RenderConcept(tree, size, PackLayout(Hierarchy(tree, "concept"), size, off))
    /\ navLast' = Event("renderConcept", 0)

\* loadFullText from the await on, lines 170-224
FullTextResponse ==
    /\ \E c \in 1..Len(fullTextPending), data \in FullTextAnswers :
         LET requested == fullTextPending[c]
             stored == StoreFullText(requested)
         IN
         /\ fullTextPending' = Remove(fullTextPending, c)
         /\ IF tabs = 0
            THEN \* no .paper-content in the document: appendChild on null throws
                 /\ mergeLast' = MergeEvent("fullTextThrew", data, requested, <<>>, <<>>)
                 /\ responseBox' = showLoadingFalse(ErrorBox("TypeError"))
                 /\ UNCHANGED currentConceptHierarchy
                 /\ UNCHANGED navVars
            ELSE IF data = <<>>
            THEN /\ mergeLast' = MergeEvent("fullText", data, requested, stored, <<>>)
                 /\ responseBox' = showLoadingFalse(responseBox)
                 /\ UNCHANGED currentConceptHierarchy
                 /\ UNCHANGED navVars
            ELSE IF currentConceptHierarchy = <<>>
            THEN \* not set: just show this hierarchy
                 /\ mergeLast' = MergeEvent("fullText", data, requested, stored, data)
                 /\ responseBox' = showLoadingFalse(responseBox)
                 /\ UNCHANGED currentConceptHierarchy
                 /\ RenderMerged(data[1])
            ELSE IF \/ currentPaperIndex >= Len(currentPapers)
                    \/ "children" \notin DOMAIN currentConceptHierarchy[1]
            THEN \* .title of undefined, or .find of undefined
                 /\ mergeLast' = MergeEvent("fullTextThrew", data, requested, stored, <<>>)
                 /\ responseBox' = showLoadingFalse(ErrorBox("TypeError"))
                 /\ UNCHANGED currentConceptHierarchy
                 /\ UNCHANGED navVars
            ELSE LET paperTitle == currentPapers[currentPaperIndex + 1]
                     paperNode == FindChild(currentConceptHierarchy[1], paperTitle)
                     merged == IF paperNode = 0 THEN currentConceptHierarchy[1]
                               ELSE ReplaceChildren(currentConceptHierarchy[1],
                                                    paperNode, data[1])
                 IN  /\ mergeLast' = MergeEvent("fullText", data, requested, stored,
                                                <<merged>>)
                     /\ responseBox' = showLoadingFalse(responseBox)
                     /\ currentConceptHierarchy' = <<merged>>
                     /\ RenderMerged(merged)
    /\ UNCHANGED <<currentPapers, currentPaperIndex, tabs, pending, appLast, overtaken>>
    /\ UNCHANGED <<sumVars, fitVars, forceVars>>

(***************************************************************************)
(* visualizeTokens(tokenMap): the token / paper force view                 *)
(***************************************************************************)
MaxLinks == 3          \* memberships (paper occurrences) of a token map
MaxSims == 2           \* simulations created on a page (visualizeTokens calls)
AlphaSteps == 2        \* ticks a simulation runs before alpha is below alphaMin

TokenNames == {"token1", "token2", "x"}
PaperIds == {"p1", "p2", "x"}

Injective(s) ==
    \A i, j \in 1..Len(s) : i # j => s[i] # s[j]

\* the keys of a token map, in the order Object.keys gives them
KeyLists ==
    { ks \in UNION { [1..n -> TokenNames] : n \in 0..Cardinality(TokenNames) } :
        Injective(ks) }

IdLists(n) == UNION { [1..k -> PaperIds] : k \in 0..n }

RECURSIVE ListsFor(_, _)
\* the lists of papers of keys ks, with at most n memberships in all
ListsFor(ks, n) ==
    IF ks = <<>> THEN { <<>> }
    ELSE UNION { { <<[token |-> Head(ks), papers |-> l]>> \o rest :
                     rest \in ListsFor(Tail(ks), n - Len(l)) } : l \in IdLists(n) }

\* token maps: a list of [token, papers] with distinct tokens
TokenMaps == UNION { ListsFor(ks, MaxLinks) : ks \in KeyLists }

\* the example of the documentation, the same with a repeated membership, and
\* a map in which "x" is a token and a paper
ExampleMap ==
    << [token |-> "token1", papers |-> <<"p1", "p2">>],
       [token |-> "token2", papers |-> <<"p2">>] >>

ForceMaps ==
    { ExampleMap,
      << [token |-> "token1", papers |-> <<"p1", "p1">>] >>,
      << [token |-> "x", papers |-> <<"x">>] >> }

RECURSIVE AllPapers(_)
\* the papers of all lists, in the order tokens.forEach visits them
AllPapers(m) == IF m = <<>> THEN <<>> ELSE Head(m).papers \o AllPapers(Tail(m))

\* a list instead of a Set: every occurrence kept
MutantKeepRepeats(s) == s

RECURSIVE Distinct(_)
\* new Set() filled by add(): each value once, in the order of first insertion
Distinct(s) ==
    IF s = <<>> THEN <<>>
    ELSE LET r == Distinct(SubSeq(s, 1, Len(s) - 1))
             x == s[Len(s)]
         IN  IF \E i \in 1..Len(r) : r[i] = x THEN r ELSE Append(r, x)

\* where the simulation puts node i at first (phyllotaxis, by index)
StartAt(i) == <<10 * i, 7 * i>>

\* const nodes = [...tokens.map(...), ...[...papers].map(...)], with the x and
\* y the simulation gives each node
BuildNodes(m) ==
    LET ps == Distinct(AllPapers(m))
        raw == [i \in 1..Len(m) |-> [id |-> m[i].token, group |-> "token"]]
               \o [i \in 1..Len(ps) |-> [id |-> ps[i], group |-> "paper"]]
    IN  [i \in 1..Len(raw) |->
           [id |-> raw[i].id, group |-> raw[i].group,
            x |-> StartAt(i)[1], y |-> StartAt(i)[2], pin |-> <<>>]]

RECURSIVE BuildLinks(_)
\* links.push({ source: token, target: paper }) for each token, each paper
BuildLinks(m) ==
    IF m = <<>> THEN <<>>
    ELSE [j \in 1..Len(Head(m).papers) |->
            [source |-> Head(m).token, target |-> Head(m).papers[j]]]
         \o BuildLinks(Tail(m))

\* forceLink().id(d => d.id): a Map from id to node, in which a later node
\* takes the place of an earlier one of the same id
NodeById(nodes, id) ==
    CHOOSE i \in 1..Len(nodes) :
        nodes[i].id = id /\ \A j \in (i + 1)..Len(nodes) : nodes[j].id # id

\* forceLink(links): source and target are replaced by the nodes of these ids
ResolveLinks(nodes, links) ==
    [k \in 1..Len(links) |->
       [source |-> links[k].source, target |-> links[k].target,
        sourceNode |-> NodeById(nodes, links[k].source),
        targetNode |-> NodeById(nodes, links[k].target)]]

\* pointer identifiers of d3.drag gestures: two touches (a mouse gesture is a
\* gesture of one pointer, like a single touch)
Pointers == {"touch0", "touch1"}
\* where a pointer may be, inside the svg or far outside it
PointerAt == { <<50, 50>>, <<-20, 900>> }

NoDrag == [node |-> 0, shared |-> FALSE]

InitForce ==
    /\ tokenMap = <<>> /\ tokNodes = <<>> /\ tokLinks = <<>> /\ sims = <<>>
    /\ drags = [p \in Pointers |-> NoDrag]
    /\ forceLast = [type |-> "load", node |-> 0, active |-> 0, at |-> <<>>]

\* d3.forceSimulation(): a new simulation, its timer running; ticked and
\* drawn tell whether it has made a tick and whether its last tick has
\* written the positions to the elements
NewSimulation ==
    [ticks |-> AlphaSteps, hot |-> FALSE, running |-> TRUE,
     ticked |-> FALSE, drawn |-> FALSE]

\* stopping the simulations of the datasets before, as a cleanup would
MutantStopPrevious(old) ==
    [k \in 1..Len(old) |-> [old[k] EXCEPT !.running = FALSE]]

\* visualizeTokens leaves the simulations created by earlier calls as they are
KeepPrevious(old) == old

\* visualizeTokens(tokenMap) for a map of the set maps, between two gestures
visualizeTokensOn(maps) ==
    /\ Len(sims) < MaxSims
    /\ \A p \in Pointers : drags[p].node = 0
    /\ \E m \in maps :
         /\ tokenMap' = <<m>>
         /\ tokNodes' = BuildNodes(m)
         /\ tokLinks' = ResolveLinks(BuildNodes(m), BuildLinks(m))
    /\ sims' = Append(KeepPrevious(sims), NewSimulation)
    /\ forceLast' = [type |-> "visualizeTokens", node |-> 0, active |-> 0, at |-> <<>>]
    /\ UNCHANGED drags
    /\ UNCHANGED <<sumVars, navVars, fitVars, appVars>>

\* the first call on a page, for every token map
visualizeTokensFirst == tokenMap = <<>> /\ visualizeTokensOn(TokenMaps)

\* a call with a new dataset
visualizeTokens == visualizeTokensOn(ForceMaps)

\* a simulation on which no "tick" listener was registered
MutantNoTickListener(drawn) == drawn

\* simulation.on("tick", () => {...}): the listener sets the positions of
\* the lines and of the node groups from the x and y of the nodes
TickListener(drawn) == TRUE

\* one timer tick of simulation k: alpha decays towards alphaTarget, the
\* "tick" listener is called, and the timer stops when alpha is below
\* alphaMin (the displacement of the nodes by the forces is left out: x and
\* y stay where the simulation put them first)
SimTickOf(k) ==
    /\ k \in 1..Len(sims)
    /\ sims[k].running
    /\ LET left == IF sims[k].hot THEN AlphaSteps ELSE sims[k].ticks - 1 IN
       sims' = [sims EXCEPT ![k] = [@ EXCEPT !.ticks = left,
                                            !.running = left > 0,
                                            !.ticked = TRUE,
                                            !.drawn = TickListener(@)]]
    /\ UNCHANGED <<tokenMap, tokNodes, tokLinks, drags, forceLast>>
    /\ UNCHANGED <<sumVars, navVars, fitVars, appVars>>

SimTick == \E k \in 1..MaxSims : SimTickOf(k)

\* event.active: the gestures in progress, the one of the event not counted
Active(p) == Cardinality({ q \in Pointers \ {p} : drags[q].node # 0 })

\* if (!event.active) simulation.alphaTarget(0.3).restart()
Reheat(active) ==
    IF active = 0
    THEN [sims EXCEPT ![Len(sims)] =
            [@ EXCEPT !.ticks = AlphaSteps, !.hot = TRUE, !.running = TRUE]]
    ELSE sims

\* an end handler that resets alphaTarget whatever event.active is
MutantCoolAlways(active) == [sims EXCEPT ![Len(sims)] = [@ EXCEPT !.hot = FALSE]]

\* an end handler that leaves alphaTarget at 0.3
MutantStayHot(active) == sims

\* if (!event.active) simulation.alphaTarget(0)
Cool(active) ==
    IF active = 0 THEN [sims EXCEPT ![Len(sims)] = [@ EXCEPT !.hot = FALSE]] ELSE sims

\* releasing the pin only with the last gesture
MutantReleaseIfIdle(active, pin) == IF active = 0 THEN <<>> ELSE pin

\* d.fx = null; d.fy = null
ReleasePin(active, pin) == <<>>

\* dragstarted(event, d): pointer p goes down on node i
dragstarted ==
    /\ \E p \in Pointers, i \in 1..Len(tokNodes) :
         /\ drags[p].node = 0
         /\ LET others == { q \in Pointers : drags[q].node = i } IN
            drags' = [q \in Pointers |->
                        IF q = p THEN [node |-> i, shared |-> others # {}]
                        ELSE IF q \in others THEN [drags[q] EXCEPT !.shared = TRUE]
                        ELSE drags[q]]
         /\ sims' = Reheat(Active(p))
         /\ tokNodes' = [tokNodes EXCEPT ![i].pin = <<tokNodes[i].x, tokNodes[i].y>>]
         /\ forceLast' = [type |-> "dragstarted", node |-> i, active |-> Active(p),
                          at |-> <<tokNodes[i].x, tokNodes[i].y>>]
    /\ UNCHANGED <<tokenMap, tokLinks>>
    /\ UNCHANGED <<sumVars, navVars, fitVars, appVars>>

\* dragged(event, d): pointer p moves
dragged ==
    /\ \E p \in Pointers, at \in PointerAt :
         /\ drags[p].node # 0
         /\ tokNodes' = [tokNodes EXCEPT ![drags[p].node].pin = at]
         /\ forceLast' = [type |-> "dragged", node |-> drags[p].node,
                          active |-> Active(p) + 1, at |-> at]
    /\ UNCHANGED <<tokenMap, tokLinks, sims, drags>>
    /\ UNCHANGED <<sumVars, navVars, fitVars, appVars>>

\* dragended(event, d): pointer p goes up, wherever it is
dragended ==
    /\ \E p \in Pointers, at \in PointerAt :
         /\ drags[p].node # 0
         /\ drags' = [drags EXCEPT ![p] = NoDrag]
         /\ sims' = Cool(Active(p))
         /\ tokNodes' = [tokNodes EXCEPT ![drags[p].node].pin =
                                            ReleasePin(Active(p), @)]
         /\ forceLast' = [type |-> "dragended", node |-> drags[p].node,
                          active |-> Active(p), at |-> at]
    /\ UNCHANGED <<tokenMap, tokLinks>>
    /\ UNCHANGED <<sumVars, navVars, fitVars, appVars>>

\* the page after a handleSearch that found papers: the papers are shown,
\* one of them active, the search tree is on the canvas, and
\* currentConceptHierarchy holds one of stores
InitAfterSearch(stores) ==
    /\ InitSumVars /\ InitFit /\ InitForce /\ engine = "layout"
    /\ currentPapers \in PaperLists
    /\ currentPaperIndex \in 0..(Len(currentPapers) - 1)
    /\ tabs = Len(currentPapers)
    /\ responseBox = Cleared /\ pending = <<>> /\ overtaken = <<>>
    /\ appLast = [type |-> "searchResponse", query |-> "x",
                  answer |-> <<currentPapers>>, called |-> TRUE,
                  wrote |-> FoundBox(Len(currentPapers)), stale |-> FALSE]
    /\ visKind = "concept" /\ visSvgs = 1
    /\ visData = <<SearchHierarchy(currentPapers)>>
    /\ visSize \in FullTextViewports
    /\ \E off \in FullTextOffsets :
         visNodes = PackLayout(Hierarchy(visData[1], "concept"), visSize, off)
    /\ visLabels = ConceptLabels(visNodes)
    /\ zoomedNode = 0
    /\ transform = RootFit(visSize, visNodes) /\ target = transform
    /\ moving = FALSE /\ gestures = 0
    /\ navLast = [type |-> "renderConcept", node |-> 0, wasZoomed |-> 0]
    /\ currentConceptHierarchy \in stores
    /\ fullTextPending = <<>>
    /\ mergeLast = [type |-> "load", data |-> <<>>, before |-> <<>>, papers |-> <<>>,
                    index |-> 0, requested |-> 0, storedOn |-> <<>>, called |-> <<>>]

(***************************************************************************)
(* Specifications                                                          *)
(***************************************************************************)
Init == InitSumVars /\ InitNav /\ InitFit /\ InitApp /\ InitForce

\* the same with one answer of getBBox() fixed, for the specifications in
\* which fitTextToCircle does not run
InitNoFit == Init /\ engine = "layout"

NextSum == SumInput \/ SumPack \/ SumRepeat \/ SumPackGraph
SpecSum == InitNoFit /\ [][NextSum]_vars

NextNav ==
    \/ updateConceptHierarchy
    \/ updateKnowledgeGraph
    \/ ClickConcept
    \/ ClickGraph
    \/ WheelZoom
    \/ DragPan
    \/ TransitionEnd
SpecNav == InitNoFit /\ [][NextNav]_vars

NextFit ==
    \/ FitCall
    \/ FitShrink
    \/ FitRemove
    \/ FitTruncate
    \/ FitTruncateEnd
    \/ FitReturn
SpecFit == Init /\ [][NextFit]_vars

\* the statements of one invocation after its first measurement
FitStep == FitShrink \/ FitRemove \/ FitTruncate \/ FitTruncateEnd
\* the same with the function running on once called: the statements of a
\* synchronous function follow each other without waiting for anything
SpecFitLive == Init /\ [][NextFit]_vars /\ WF_vars(FitStep)

NextApp ==
    \/ SearchSubmit
    \/ SearchFails
    \/ SearchResponse
    \/ displayPaper
SpecApp == InitNoFit /\ [][NextApp]_vars

\* loading full texts after a search, as the page is: nothing has assigned
\* currentConceptHierarchy
NextLoad == displayPaper \/ loadFullText \/ FullTextFails \/ FullTextResponse
SpecLoad == InitAfterSearch({<<>>}) /\ [][NextLoad]_vars

\* the same for every value currentConceptHierarchy may hold: the merge of
\* loadFullText as a function of the stored tree
SpecMerge ==
    InitAfterSearch({<<>>} \cup { <<t>> : t \in StoredTrees }) /\ [][NextLoad]_vars

\* the nodes and links visualizeTokens builds, for every token map
NextTok == visualizeTokensFirst \/ SimTick
SpecTok == InitNoFit /\ [][NextTok]_vars

\* the force view: renderings, drag gestures and timer ticks
NextForce == visualizeTokens \/ SimTick \/ dragstarted \/ dragged \/ dragended
SpecForce == InitNoFit /\ [][NextForce]_vars

\* the same with the timers firing: a running simulation is ticked by its
\* d3.timer on every animation frame
SpecForceLive ==
    InitNoFit /\ [][NextForce]_vars /\ \A k \in 1..MaxSims : WF_vars(SimTickOf(k))

\* the whole page: the handlers of all parts, interleaved
Next ==
    NextSum \/ NextNav \/ NextFit \/ NextApp \/ NextLoad \/ NextForce
        \/ visualizeTokensFirst
Spec == Init /\ [][Next]_vars

(***************************************************************************)
(* Navigation of the concept view                                          *)
(***************************************************************************)
\* the root-fit transform written out: scale 0.8, root at the viewport centre
IsRootFit(t) ==
    /\ t.k = FitScale
    /\ Apply(t, visNodes[1].x, visNodes[1].y) = Centre(visSize)

\* the focus transform on node i written out: scale 1.5, node i at the centre
IsFocusOn(t, i) ==
    /\ t.k = FocusScale
    /\ Apply(t, visNodes[i].x, visNodes[i].y) = Centre(visSize)

ConceptClicked == visKind = "concept" /\ navLast.type = "click"

\* C1: in Overview, a click on a depth-0 node n sets zoomedNode to n and the
\* target transform to scale 1.5 with n's layout position at the viewport centre
C1_OverviewClickFocuses ==
    (ConceptClicked /\ navLast.wasZoomed = 0 /\ visNodes[navLast.node].depth = 0)
        => /\ zoomedNode = navLast.node
           /\ IsFocusOn(target, navLast.node)

C1_Witness ==
    /\ ConceptClicked /\ navLast.wasZoomed = 0 /\ visNodes[navLast.node].depth = 0
    /\ zoomedNode = navLast.node /\ moving /\ transform # target

\* C2: in Focused(n), a click on any circle sets zoomedNode to null and the
\* target transform to the root-fit transform; it never focuses another node
C2_FocusedClickLeaves ==
    (ConceptClicked /\ navLast.wasZoomed # 0)
        => /\ zoomedNode = 0
           /\ IsRootFit(target)

C2_Witness ==
    /\ ConceptClicked /\ navLast.wasZoomed # 0 /\ navLast.node # navLast.wasZoomed
    /\ visNodes[navLast.node].depth > 0 /\ zoomedNode = 0

\* C3: in both views the scale stays within [0.1, 4] in every state, and a
\* wheel or drag gesture leaves zoomedNode as it was
C3_ScaleWithinExtent ==
    /\ visKind # "none"
         => /\ ScaleMin <= transform.k /\ transform.k <= ScaleMax
            /\ ScaleMin <= target.k /\ target.k <= ScaleMax
    /\ navLast.type \in {"wheel", "drag"} => zoomedNode = navLast.wasZoomed

C3_Witness ==
    /\ visKind = "concept" /\ navLast.type = "wheel" /\ navLast.wasZoomed # 0
    /\ zoomedNode # 0 /\ transform.k = ScaleMin

\* C4: right after updateConceptHierarchy with a hierarchy, zoomedNode is null
\* and the transform is the root-fit transform, whatever the state before
C4_RenderStartsInOverview ==
    navLast.type = "renderConcept"
        => /\ visKind = "concept"
           /\ zoomedNode = 0
           /\ IsRootFit(transform) /\ target = transform /\ ~moving

C4_Witness ==
    /\ navLast.type = "renderConcept" /\ navLast.wasZoomed # 0 /\ zoomedNode = 0

\* C5: zoomedNode agrees with the last transform the program set: null with
\* the root-fit transform, a node n with the scale-1.5 transform centred on n
C5_ZoomedNodeAgreesWithTarget ==
    visKind = "concept"
        => IF zoomedNode = 0 THEN IsRootFit(target) ELSE IsFocusOn(target, zoomedNode)

C5_Witness ==
    /\ visKind = "concept" /\ zoomedNode # 0 /\ navLast.type = "wheel"
    /\ transform # target /\ IsFocusOn(target, zoomedNode)

\* C6: labels follow the focus state: the focused node shows its name, every
\* other depth-0 node the placeholder, every node of depth >= 1 nothing
C6_LabelsFollowFocus ==
    visKind = "concept"
        => \A i \in 1..Len(visNodes) :
             visLabels[i] = IF i = zoomedNode THEN visNodes[i].name
                            ELSE IF visNodes[i].depth = 0 THEN Placeholder
                            ELSE ""

C6_Witness ==
    /\ ConceptClicked /\ navLast.wasZoomed # 0 /\ zoomedNode = 0
    /\ visLabels[1] = Placeholder /\ visNodes[1].name # Placeholder
    /\ Len(visNodes) > 1

(***************************************************************************)
(* The label fitter                                                        *)
(***************************************************************************)
EndsInEllipsis(t) == t # <<>> /\ t[Len(t)] = Ellipsis

\* the post-condition of fitTextToCircle on what it returns
FitPost ==
    /\ fitArgs.minFont <= fitFont /\ fitFont <= fitArgs.maxFont
    /\ \/ TextWidth(fitText, fitFont) <= MaxWidth(fitArgs.radius)
       \/ EndsInEllipsis(fitText) /\ Len(fitText) >= MinChars

\* C7 as stated: every returned result meets the post-condition, texts of 3
\* characters or fewer that overflow at minFont included
C7_PostForEveryText == fitPc = "done" => FitPost

\* C7 amended: every returned result meets the post-condition when the text
\* is longer than 3 characters or fits at minFont
C7_PostForLongOrFittingText ==
    (/\ fitPc = "done"
     /\ \/ Len(fitArgs.text) > MinChars
        \/ TextWidth(fitArgs.text, fitArgs.minFont) <= MaxWidth(fitArgs.radius))
        => FitPost

C7_Witness ==
    /\ fitPc = "done" /\ engine = "layout" /\ Len(fitArgs.text) > MinChars
    /\ fitFont = fitArgs.minFont /\ fitFont < fitArgs.maxFont
    /\ EndsInEllipsis(fitText) /\ Len(fitText) = MinChars + 1
    /\ TextWidth(fitText, fitFont) > MaxWidth(fitArgs.radius)

\* C8: each invocation creates one measurement svg, and when it has ended, by
\* a return or by an exception, body holds as many svgs as before the call
C8_MeasurementSvgRemoved ==
    fitPc \in {"done", "threw"}
        => /\ fitSvg.created = 1
           /\ ~fitSvg.attached
           /\ bodySvgs = fitSvg.before

C8_Witness ==
    /\ fitPc = "done" /\ fitText = fitArgs.text /\ fitFont < fitArgs.maxFont
    /\ TextWidth(fitText, fitFont) <= MaxWidth(fitArgs.radius)
    /\ bodySvgs = fitSvg.before /\ fitSvg.created = 1

(***************************************************************************)
(* Computed values of the packed tree                                      *)
(***************************************************************************)
ChildValues(node) == SeqSum([i \in 1..Len(node.children) |-> node.children[i].value])

OneRoot(root) ==
    Cardinality({ i \in 1..Len(Descendants(root)) : Descendants(root)[i].depth = 0 }) = 1

\* C9 as stated: one root, every non-leaf node's computed value is the sum of
\* its children's computed values, and a second summation changes nothing
C9_NonLeafIsSumOfChildren ==
    sumRoot # <<>>
        => /\ OneRoot(sumRoot[1])
           /\ \A i \in 1..Len(Descendants(sumRoot[1])) :
                LET n == Descendants(sumRoot[1])[i] IN
                n.children # <<>> => n.value = ChildValues(n)
           /\ sumAgain # <<>> => sumAgain = sumRoot

\* C9 amended: one root, every node's computed value is its own value (1 when
\* absent or 0) plus the sum of its children's computed values, and a second
\* summation changes nothing
C9_ValueIsOwnPlusChildren ==
    sumRoot # <<>>
        => /\ OneRoot(sumRoot[1])
           /\ \A i \in 1..Len(Descendants(sumRoot[1])) :
                LET n == Descendants(sumRoot[1])[i]
                    own == IF HasValue(n.data) /\ n.data.value # 0
                           THEN n.data.value ELSE 1
                IN  n.value = own + ChildValues(n)
           /\ sumAgain # <<>> => sumAgain = sumRoot

\* a paper node of value 5 with one child of value 1 has been summed twice
C9_Witness ==
    /\ sumAgain # <<>>
    /\ \E i \in 1..Len(Descendants(sumAgain[1])) :
         LET n == Descendants(sumAgain[1])[i] IN
         /\ n.depth = 1 /\ HasValue(n.data) /\ n.data.value = PaperValue
         /\ Len(n.children) = 1 /\ n.children[1].value = AbstractValue
         /\ n.value = PaperValue + AbstractValue

(***************************************************************************)
(* The tree handleSearch builds                                            *)
(***************************************************************************)
\* the tree of the claim, for a list of papers: a root "Search Results" with
\* one child per paper, in order, of value 5 with the one child Abstract of 1
IsSearchTree(h, papers) ==
    /\ h.name = "Search Results"
    /\ Len(Kids(h)) = Len(papers)
    /\ \A i \in 1..Len(papers) :
         /\ h.children[i].name = papers[i]
         /\ HasValue(h.children[i]) /\ h.children[i].value = PaperValue
         /\ Kids(h.children[i]) = <<[name |-> "Abstract", value |-> AbstractValue]>>

SearchAnswered == appLast.type = "searchResponse"
GotPapers == appLast.answer # <<>> /\ appLast.answer[1] # <<>>

\* C10: a handleSearch given a non-empty list of papers has built and
\* rendered the tree of that list; given none, it has rendered nothing
C10_SearchBuildsTree ==
    SearchAnswered
        => IF GotPapers
           THEN /\ appLast.called
                /\ visData # <<>> /\ IsSearchTree(visData[1], appLast.answer[1])
           ELSE ~appLast.called

\* the part of C10 the code meets: the tree is built whenever the paper at
\* currentPaperIndex exists in the new list
C10_BuildsTreeWhenIndexInRange ==
    SearchAnswered
        => IF GotPapers /\ currentPaperIndex < Len(appLast.answer[1])
           THEN /\ appLast.called
                /\ visData # <<>> /\ IsSearchTree(visData[1], appLast.answer[1])
           ELSE ~appLast.called

(***************************************************************************)
(* The nodes and links of the token view                                   *)
(***************************************************************************)
NodesOf(group) == { i \in 1..Len(tokNodes) : tokNodes[i].group = group }

Memberships(m) == SeqSum([i \in 1..Len(m) |-> Len(m[i].papers)])

Occurrences(list, p) == Cardinality({ j \in 1..Len(list) : list[j] = p })

LinksFrom(t, p) ==
    Cardinality({ k \in 1..Len(tokLinks) :
                    tokLinks[k].source = t /\ tokLinks[k].target = p })

InDegree(p) == Cardinality({ k \in 1..Len(tokLinks) : tokLinks[k].target = p })

C12_NodeIdsUnique ==
    \A i, j \in 1..Len(tokNodes) : i # j => tokNodes[i].id # tokNodes[j].id

(***************************************************************************)
(* The merge of a loaded hierarchy into the stored tree                    *)
(***************************************************************************)
\* a loadFullText call has completed with a hierarchy in its data
LoadedHierarchy == mergeLast.type = "fullText" /\ mergeLast.data # <<>>

\* the title of the paper that was active then
ActiveTitle == mergeLast.papers[mergeLast.index + 1]

\* the stored tree had a direct child of the root of that name
Matched ==
    /\ mergeLast.before # <<>>
    /\ FindChild(mergeLast.before[1], ActiveTitle) > 0

\* C13: with a direct child of the stored root named as the active paper,
\* that child's children become data.hierarchy.children; the root's name, the
\* number and order of its children, that child's name and value and every
\* sibling subtree stay as they were
C13_MergeReplacesChildrenOnly ==
    (LoadedHierarchy /\ Matched) =>
      LET old == mergeLast.before[1]
          i == FindChild(old, ActiveTitle)
      IN  /\ mergeLast.called # <<>>
          /\ currentConceptHierarchy = mergeLast.called
          /\ LET new == mergeLast.called[1] IN
             /\ new.name = old.name
             /\ Len(Kids(new)) = Len(Kids(old))
             /\ \A j \in 1..Len(Kids(old)) : j # i => new.children[j] = old.children[j]
             /\ new.children[i].name = old.children[i].name
             /\ ValueOf(new.children[i]) = ValueOf(old.children[i])
             /\ Kids(new.children[i]) = Kids(mergeLast.data[1])

C13_Witness ==
    /\ LoadedHierarchy /\ Matched
    /\ Len(Kids(mergeLast.before[1])) = 2
    /\ FindChild(mergeLast.before[1], ActiveTitle) = 2
    /\ Kids(mergeLast.data[1]) # <<>>
    /\ Kids(mergeLast.before[1].children[2]) # Kids(mergeLast.data[1])
    /\ Kids(currentConceptHierarchy[1].children[2]) = Kids(mergeLast.data[1])
    /\ visData = currentConceptHierarchy

IsMergedSearchTree(t, papers, index, kids) ==
    /\ t.name = "Search Results"
    /\ Len(Kids(t)) = Len(papers)
    /\ \A j \in 1..Len(papers) : t.children[j].name = papers[j]
    /\ Kids(t.children[FindChild(t, papers[index + 1])]) = kids

\* C15: after a search has rendered its tree, a loadFullText response with a
\* hierarchy renders the search tree with the new children under the active
\* paper and the other papers still there
C15_FullTextKeepsSearchTree ==
    LoadedHierarchy
        => /\ mergeLast.called # <<>>
           /\ IsMergedSearchTree(mergeLast.called[1], mergeLast.papers,
                                 mergeLast.index, Kids(mergeLast.data[1]))

(***************************************************************************)
(* Renderings given no data                                                *)
(***************************************************************************)
\* C16: after updateKnowledgeGraph with null data or data without nodes or
\* edges, and after updateConceptHierarchy with no hierarchy, the container
\* holds no scene, also when a dataset had been rendered there before
C16_InvalidInputBlanksCanvas ==
    navLast.type = "invalidInput"
        => visKind = "none" /\ visNodes = <<>> /\ visLabels = <<>>

(***************************************************************************)
(* Drag gestures and simulations of the force view                         *)
(***************************************************************************)
Pinned(i) == tokNodes[i].pin # <<>>

\* what the three handlers leave in fx, fy of the node of the last event
PinAfterLastEvent ==
    /\ forceLast.type = "dragstarted"
         => tokNodes[forceLast.node].pin
              = <<tokNodes[forceLast.node].x, tokNodes[forceLast.node].y>>
    /\ forceLast.type = "dragged"
         => tokNodes[forceLast.node].pin = forceLast.at
    /\ forceLast.type = "dragended" => ~Pinned(forceLast.node)

\* C17 as stated: a node is pinned as long as a gesture on it is in progress,
\* at its position after the start and at the pointer after each drag event,
\* and unpinned after the end event whatever event.active is
C17_PinnedFromStartToEnd ==
    /\ \A p \in Pointers : drags[p].node # 0 => Pinned(drags[p].node)
    /\ PinAfterLastEvent

\* C17 amended: the same for the gestures that had their node to themselves;
\* the end of one of two gestures on a node unpins it under the other
C17_PinnedWhileSoleGesture ==
    /\ \A p \in Pointers :
         (drags[p].node # 0 /\ ~drags[p].shared) => Pinned(drags[p].node)
    /\ \A i \in 1..Len(tokNodes) :
         (\A p \in Pointers : drags[p].node # i) => ~Pinned(i)
    /\ PinAfterLastEvent

\* one of two gestures has ended, far outside the svg; its node is free and
\* the node of the other gesture is still pinned
C17_Witness ==
    /\ forceLast.type = "dragended" /\ forceLast.active > 0
    /\ forceLast.at = <<-20, 900>>
    /\ ~Pinned(forceLast.node)
    /\ \E p \in Pointers :
         /\ drags[p].node # 0 /\ drags[p].node # forceLast.node
         /\ tokNodes[drags[p].node].pin = <<50, 50>>

\* C18: at most one simulation is running at any time
C18_OneSimulationRunning ==
    Cardinality({ k \in 1..Len(sims) : sims[k].running }) <= 1

(***************************************************************************)
(* Overlapping searches                                                    *)
(***************************************************************************)
\* C19: a response that arrives after a call issued later has completed is
\* handled like any other: its papers and its tree are what is rendered last
C19_LateResponseIsRendered ==
    (/\ SearchAnswered /\ appLast.stale /\ GotPapers
     /\ currentPaperIndex < Len(appLast.answer[1]))
        => /\ appLast.called
           /\ currentPapers = appLast.answer[1]
           /\ tabs = Len(appLast.answer[1])
           /\ visData = <<SearchHierarchy(appLast.answer[1])>>
           /\ navLast.type = "renderConcept"

\* "x" was issued before another query, answered after it, and its two
\* papers and their tree are on the page when both calls have ended
C19_Witness ==
    /\ SearchAnswered /\ appLast.stale /\ appLast.query = "x"
    /\ pending = <<>>
    /\ currentPapers = <<"A", "B">> /\ appLast.answer = <<currentPapers>>
    /\ visData = <<SearchHierarchy(currentPapers)>>

(***************************************************************************)
(* The steps of the label fitter                                           *)
(***************************************************************************)
\* measurements made by the shrink loop and before it
ShrinkMeasures == fitArgs.maxFont - fitFont + 1

Overflows(t, font) == TextWidth(t, font) > MaxWidth(fitArgs.radius)

\* the font size starts at maxFont and goes down by 1 while the text
\* overflows and the size is above minFont
ShrinkSteps ==
    /\ fitArgs.minFont <= fitFont /\ fitFont <= fitArgs.maxFont
    /\ \A f \in (fitFont + 1)..fitArgs.maxFont : Overflows(fitArgs.text, f)
    /\ fitPc = "shrink" => fitMeasures = ShrinkMeasures
    /\ (fitPc # "shrink" /\ fitFont > fitArgs.minFont) => ~Overflows(fitArgs.text, fitFont)

\* truncation only of a text that overflows at minFont; every step takes one
\* more character off the end and appends one ellipsis
TruncateSteps ==
    /\ (fitPc = "truncate" \/ fitText # fitArgs.text)
         => fitFont = fitArgs.minFont /\ Overflows(fitArgs.text, fitArgs.minFont)
    /\ \/ fitText = fitArgs.text
       \/ /\ MinChars <= fitChars /\ fitChars < Len(fitArgs.text)
          /\ fitText = Truncated(fitArgs.text, fitChars)
          /\ fitChars = Len(fitArgs.text) - (fitMeasures - ShrinkMeasures)

\* the width getBBox() answers for t on the function's svg as it is
Measured(t) ==
    IF fitSvg.attached \/ engine = "layout" THEN TextWidth(t, fitFont) ELSE 0

C21_MeasuredWhileAttached ==
    [][fitMeasures' # fitMeasures => fitSvg'.attached]_vars

\* the bound of the claim on the getBBox() calls of one invocation
FitMeasureBound == (fitArgs.maxFont - fitArgs.minFont) + Len(fitArgs.text) + 1

FitRunning == fitPc \in {"shrink", "truncate"}
FitEnded == fitPc \in {"done", "threw"}

ChildrenDescending(root) ==
    \A i \in 1..Len(Descendants(root)) :
      LET ks == Descendants(root)[i].children IN
      \A j \in 1..(Len(ks) - 1) : ks[j].value >= ks[j + 1].value

\* the values the accessor of a view gives the children of d, in input order
InputValues(d, view) == [j \in 1..Len(Kids(d)) |-> Accessor(view, Kids(d)[j])]

\* C23: in the tree pack() hands to the layout, in the concept view and in
\* the knowledge-graph view, the children of every node are ordered by
\* non-increasing computed value, whatever their order in the input
C23_ChildrenSortedByValue ==
    /\ sumRoot # <<>> => ChildrenDescending(sumRoot[1])
    /\ sumGraph # <<>> => ChildrenDescending(sumGraph[1])

\* below the root's only child the input has a leaf of value 1 before a leaf
\* of value 5, and both views have put the 5 first
C23_Witness ==
    /\ sumRoot # <<>> /\ sumGraph # <<>>
    /\ Len(Kids(sumData[1])) = 1
    /\ InputValues(Kids(sumData[1])[1], "graph") = <<AbstractValue, PaperValue>>
    /\ \A r \in {sumRoot[1], sumGraph[1]} :
         /\ r.children[1].children[1].value = PaperValue
         /\ r.children[1].children[2].value = AbstractValue

(***************************************************************************)
(* The scene in the container                                              *)
(***************************************************************************)
RECURSIVE TreeSize(_)
\* the nodes of a data tree, the root and all descendants
TreeSize(d) == 1 + SeqSum([j \in 1..Len(Kids(d)) |-> TreeSize(Kids(d)[j])])

RECURSIVE NodeCount(_, _, _, _)
\* the nodes of data tree d, whose root is at depth at, of a name and a depth
NodeCount(d, at, name, depth) ==
    (IF d.name = name /\ at = depth THEN 1 ELSE 0)
        + SeqSum([j \in 1..Len(Kids(d)) |-> NodeCount(Kids(d)[j], at + 1, name, depth)])

\* the node groups of the scene of a name and a depth
GroupCount(name, depth) ==
    Cardinality({ i \in 1..Len(visNodes) :
                    visNodes[i].name = name /\ visNodes[i].depth = depth })

\* C24: once a dataset has been rendered the container holds exactly one svg,
\* and its node groups, each with its label, are one for one the nodes of the
\* tree rendered last; nothing of an earlier dataset is left
C24_SceneIsLastTree ==
    IF visKind = "none" THEN visSvgs = 0
    ELSE /\ visSvgs = 1
         /\ visData # <<>>
         /\ Len(visNodes) = TreeSize(visData[1])
         /\ Len(visLabels) = Len(visNodes)
         /\ \A i \in 1..Len(visNodes) :
              GroupCount(visNodes[i].name, visNodes[i].depth)
                = NodeCount(visData[1], 0, visNodes[i].name, visNodes[i].depth)

\* a knowledge graph of three nodes has been rendered over a concept scene
\* that was focused on a node
C24_Witness ==
    /\ navLast.type = "renderGraph" /\ navLast.wasZoomed # 0
    /\ visKind = "graph" /\ visSvgs = 1
    /\ Len(visNodes) = 3 /\ TreeSize(visData[1]) = 3

(***************************************************************************)
(* The running of the force simulations                                    *)
(***************************************************************************)
NoGesture == \A p \in Pointers : drags[p].node = 0

Ticking == \E k \in 1..Len(sims) : sims[k].running

\* C25: when from some moment on no drag gesture is in progress, every
\* simulation cools down and stops ticking; and every tick a simulation has
\* made has called the listener that writes the positions
C25_CoolsDownAndDraws ==
    /\ (<>[]NoGesture) => <>[]~Ticking
    /\ [](\A k \in 1..Len(sims) : sims[k].ticked => sims[k].drawn)

\* a gesture has reheated the simulation and ended, and the simulation has
\* since ticked, drawn and stopped
C25_Witness ==
    /\ forceLast.type = "dragended" /\ forceLast.active = 0 /\ NoGesture
    /\ ~Ticking
    /\ sims[Len(sims)].ticks = 0 /\ ~sims[Len(sims)].hot
    /\ sims[Len(sims)].ticked /\ sims[Len(sims)].drawn

\* alphaTarget of simulation k is 0.3
Hot(k) == sims[k].hot

\* C26: with gestures of several pointers overlapping, alphaTarget of the
\* simulation of the scene is 0.3 in every state in which a gesture is in
\* progress and 0 in every state in which none is; the simulations of
\* earlier scenes, on which no gesture can act, have alphaTarget 0
C26_HotWhileAnyGesture ==
    /\ sims # <<>> => (Hot(Len(sims)) <=> ~NoGesture)
    /\ \A k \in 1..(Len(sims) - 1) : ~Hot(k)
    /\ forceLast.type = "dragended"
         => (Hot(Len(sims)) <=> forceLast.active > 0)

\* the first of two overlapping gestures has ended and alphaTarget is still
\* 0.3 for the second
C26_Witness ==
    /\ forceLast.type = "dragended" /\ forceLast.active = 1
    /\ \E p \in Pointers : drags[p].node # 0
    /\ Hot(Len(sims)) /\ sims[Len(sims)].running

(***************************************************************************)
(* Clicks that do nothing                                                  *)
(***************************************************************************)
\* this step is a click, on node navLast'.node
ClickStep == navLast' # navLast /\ navLast'.type = "click"

\* C27: in the overview of the concept view a click on a circle of depth 1
\* or more leaves zoomedNode null, the transform, the target and a running
\* transition as they are, and every label as it is
C27_OverviewClickBelowRootIgnored ==
    [][(/\ visKind = "concept" /\ ClickStep
        /\ zoomedNode = 0
        /\ visNodes[navLast'.node].depth >= 1)
          => /\ zoomedNode' = 0
             /\ UNCHANGED <<transform, target, moving, visLabels>>
             /\ UNCHANGED <<visKind, visSvgs, visNodes, visData>>]_vars

\* a paper circle (depth 1) has been clicked in the overview, after the view
\* had been zoomed by the wheel: nothing has moved and the labels are those
\* of the rendering
C27_Witness ==
    /\ visKind = "concept" /\ navLast.type = "click" /\ navLast.wasZoomed = 0
    /\ visNodes[navLast.node].depth = 1
    /\ zoomedNode = 0 /\ ~moving
    /\ transform # target /\ target = RootFit(visSize, visNodes)
    /\ visLabels = ConceptLabels(visNodes)

\* the knowledge-graph focus transform on node i written out: scale 4, node
\* i at the viewport centre
IsGraphFocusOn(t, i) ==
    /\ t.k = GraphFocusScale
    /\ Apply(t, visNodes[i].x, visNodes[i].y) = Centre(visSize)

\* C28: in the knowledge-graph view a click on a node of depth 1 or more
\* sets the target to scale 4 with that node at the viewport centre, the
\* first time and every time after; a click on the root changes nothing; no
\* click sets zoomedNode or brings the root-fit transform back
C28_GraphClickZoomsNeverLeaves ==
    /\ [](visKind = "graph"
            => /\ zoomedNode = 0
               /\ (navLast.type = "click" /\ visNodes[navLast.node].depth >= 1)
                    => IsGraphFocusOn(target, navLast.node) /\ ~IsRootFit(target))
    /\ [][(visKind = "graph" /\ ClickStep)
            => /\ visNodes[navLast'.node].depth = 0
                    => UNCHANGED <<transform, target, moving>>
               /\ visNodes[navLast'.node].depth >= 1
                    => moving' /\ transform' = transform
               /\ IsRootFit(target)' => IsRootFit(target)
               /\ UNCHANGED <<visLabels, visKind, visSvgs, visNodes, visData>>]_vars

\* the root has been clicked after a click had zoomed in on a node below
\* it and the transition had ended: the view is still at scale 4
C28_Witness ==
    /\ visKind = "graph" /\ navLast.type = "click"
    /\ visNodes[navLast.node].depth = 0
    /\ ~moving /\ transform = target
    /\ \E i \in 2..Len(visNodes) : IsGraphFocusOn(target, i)

(***************************************************************************)
(* The paper a full text is attributed to                                  *)
(***************************************************************************)
\* C29: the full text and summary of an answer are stored on the paper the
\* call was made for, and the paper whose title selects the node its
\* hierarchy is merged into is that paper, also when another tab was opened
\* while the call waited
C29_FullTextGoesToRequestedPaper ==
    mergeLast.type \in {"fullText", "fullTextThrew"}
        => /\ mergeLast.storedOn # <<>> => mergeLast.storedOn = <<mergeLast.requested>>
           /\ mergeLast.data # <<>> => mergeLast.index = mergeLast.requested

(***************************************************************************)
(* What the response box shows when a call has ended                       *)
(***************************************************************************)
\* an error message or the "Found N papers" line
IsOutcome(box) == box[1] \in {"error", "found"}

\* C30: when a handleSearch call has ended, the outcome it wrote to the
\* response box last, an error or the line "Found N papers", is still shown
C30_OutcomeStillShown ==
    (/\ appLast.type \in {"searchFailed", "searchResponse"}
     /\ IsOutcome(appLast.wrote))
        => responseBox = appLast.wrote

====
